---- MODULE Spec2Model ----
(***************************************************************************)
(* A model of mtg-card-organizer: the decklist resolver of src/src/mtg.rs  *)
(* and the message handler App::update of src/src/app.rs.                  *)
(*                                                                         *)
(* Six specifications share the variables.  SpecResolve draws a decklist   *)
(* and the answer of the catalog for every line and applies                *)
(* process_decklist; SpecSearch draws an index, a query and a limit and    *)
(* applies fuzzy_top_n.  The others are the application: one action per    *)
(* AppMessage handled by App::update, with the asynchronous tasks          *)
(* (decklist analysis, image download) kept as bags of tasks in flight.    *)
(* SpecDecks runs the handlers of the deck store, SpecImages those of the  *)
(* search and the image cache, SpecView sends AddCard and RemoveCard only  *)
(* from buttons the views enable, and SpecAnalyze follows the analyses in  *)
(* the order they were requested.  A panic in a handler ends the           *)
(* application (crashed).                                                  *)
(*                                                                         *)
(* Fields of App that only feed the rendering (section, deck_output,       *)
(* deck_name and Deck.name, default_image) are not modelled, and the text  *)
(* of the editor (deck_input_content) is an input of AnalyzeDeck.          *)
(***************************************************************************)
EXTENDS Integers, Sequences, FiniteSets, Bags, TLC

VARIABLES
    decks,            \* App.decks: HashMap<Uuid, Deck>
    card_index,       \* App.card_index: Vec<IndexedCard>
    deck_in_progress, \* App.deck_in_progress: Option<Vec<CardInDeck>>
    search_text,      \* App.search_text
    search_result,    \* App.search_result: Vec<IndexedCard>
    image_cache,      \* App.image_cache: HashMap<String, Bytes>
    analyses,         \* process_decklist tasks in flight (bag of inputs)
    fetches,          \* download_image tasks in flight (bag of [name, img])
    crashed,          \* a handler panicked: the application has terminated
    msg,              \* the message handled last
    prev,             \* the state that message was handled in
    r_input,          \* resolver: the decklist given to process_decklist
    r_oc,             \* resolver: the outcome of the catalog lookup per line
    r_out,            \* resolver: what process_decklist returned
    r_done,           \* resolver: process_decklist has returned
    f_query,          \* search: the query given to fuzzy_top_n
    f_cards,          \* search: the index given to fuzzy_top_n
    f_top,            \* search: the limit given to fuzzy_top_n
    f_out,            \* search: what fuzzy_top_n returned
    f_done,           \* search: fuzzy_top_n has returned
    orphaned,         \* history: fetches in flight whose card lost its only deck
    orphan_delivered, \* history: the fetch completed last was such a fetch
    requests,         \* history: the analyses in flight, in the order requested
    dip_from          \* history: the request deck_in_progress was resolved from

vars == <<decks, card_index, deck_in_progress, search_text,
          search_result, image_cache, analyses, fetches, crashed, msg, prev,
          r_input, r_oc, r_out, r_done,
          f_query, f_cards, f_top, f_out, f_done,
          orphaned, orphan_delivered, requests, dip_from>>

appVars == <<decks, card_index, deck_in_progress, search_text,
             search_result, image_cache, analyses, fetches, crashed, msg, prev>>

resolverVars == <<r_input, r_oc, r_out, r_done>>

searchVars == <<f_query, f_cards, f_top, f_out, f_done>>

fetchHistory == <<orphaned, orphan_delivered>>

analysisHistory == <<requests, dip_from>>

\* What each specification of the application leaves alone.
outsideDecks == <<resolverVars, searchVars, fetchHistory, analysisHistory>>

outsideImages == <<resolverVars, searchVars, analysisHistory>>

outsideAnalyses == <<resolverVars, searchVars, fetchHistory>>

(***************************************************************************)
(* Bounds.                                                                 *)
(***************************************************************************)
MaxLines == 2      \* lines of a decklist given to the resolver
MaxCur == 2        \* current_quantity is followed up to this value ...
MaxDebt == 1       \* ... and down to -MaxDebt
MaxAnalyses == 1   \* process_decklist tasks in flight
MaxFetches == 2    \* download_image tasks in flight

MaxPending == 2    \* process_decklist tasks in flight when their order is followed
MaxIndex == 3      \* entries of an index given to fuzzy_top_n
MaxTop == 3        \* the limit given to fuzzy_top_n goes up to this value

I32Max == 2147483647

(***************************************************************************)
(* Decklist text.  A line is what split_whitespace makes of it: the first  *)
(* token as its characters, the remaining tokens as words.  A line that is *)
(* empty after trimming has no token at all.                               *)
(***************************************************************************)
Digits == {"0", "1", "2", "3", "4", "5", "6", "7", "8", "9"}

DigitVal(c) ==
    CASE c = "0" -> 0 [] c = "1" -> 1 [] c = "2" -> 2 [] c = "3" -> 3
      [] c = "4" -> 4 [] c = "5" -> 5 [] c = "6" -> 6 [] c = "7" -> 7
      [] c = "8" -> 8 [] c = "9" -> 9

Tokens == { <<"2">>, <<"1">>, <<"0">>, <<"0", "2">>, <<"-", "1">>, <<"x">>,
            <<"2", "x">> }

Rests == { <<>>, <<"bolt">>, <<"black", "lotus">>, <<"opt">> }

BlankLine == [tok |-> <<>>, rest |-> <<>>]

Lines == {BlankLine} \cup [tok : Tokens, rest : Rests]

RECURSIVE SeqsUpTo(_, _)
SeqsUpTo(S, n) ==
    IF n = 0 THEN { <<>> }
    ELSE LET shorter == SeqsUpTo(S, n - 1)
         IN  shorter \cup { Append(s, x) : s \in { t \in shorter : Len(t) = n - 1 }, x \in S }

Decklists == SeqsUpTo(Lines, MaxLines)

\* l.trim().is_empty()
IsBlank(line) == line.tok = <<>>

\* str::parse::<i32>: an optional sign, then at least one digit, nothing
\* else, and the value within the range of i32.
RECURSIVE DecimalValue(_)
DecimalValue(ds) ==
    IF ds = <<>> THEN 0
    ELSE 10 * DecimalValue(SubSeq(ds, 1, Len(ds) - 1)) + DigitVal(ds[Len(ds)])

ParseI32(tok) ==
    LET signed == tok # <<>> /\ tok[1] \in {"-", "+"}
        ds == IF signed THEN Tail(tok) ELSE tok
        mag == DecimalValue(ds)
        val == IF signed /\ tok[1] = "-" THEN 0 - mag ELSE mag
    IN  IF ds = <<>> \/ \E i \in 1..Len(ds) : ds[i] \notin Digits
        THEN [ok |-> FALSE, val |-> 0]
        ELSE IF val > I32Max \/ val < 0 - I32Max - 1
        THEN [ok |-> FALSE, val |-> 0]
        ELSE [ok |-> TRUE, val |-> val]

\* split.next().unwrap_or("0").parse().unwrap_or(0)
LineQuantity(line) ==
    LET first == IF line.tok = <<>> THEN <<"0">> ELSE line.tok
        p == ParseI32(first)
    IN  IF p.ok THEN p.val ELSE 0

\* split.collect::<Vec<_>>().join(" ")
RECURSIVE Join(_)
Join(ws) ==
    IF ws = <<>> THEN ""
    ELSE IF Len(ws) = 1 THEN ws[1]
    ELSE ws[1] \o " " \o Join(Tail(ws))

LineName(line) == Join(line.rest)

(***************************************************************************)
(* The card catalog (scryfall::Card::named_fuzzy).  It resolves a name it  *)
(* knows to the canonical card, and any lookup may fail.                   *)
(***************************************************************************)
NoUrl == ""

Catalog ==
    [n \in {"bolt", "black lotus", "opt"} |->
        CASE n = "bolt" ->
                 [name |-> "Lightning Bolt",
                  image_uris |-> [some |-> TRUE, small |-> "bolt-small", png |-> "bolt-png"]]
          [] n = "black lotus" ->
                 [name |-> "Black Lotus",
                  image_uris |-> [some |-> TRUE, small |-> NoUrl, png |-> "lotus-png"]]
          [] n = "opt" ->
                 [name |-> "Opt",
                  image_uris |-> [some |-> FALSE, small |-> NoUrl, png |-> NoUrl]]]

Outcomes == {"ok", "err"}

\* What the lookup of `name` can answer.
LookupOutcomes(name) == IF name \in DOMAIN Catalog THEN {"ok", "err"} ELSE {"err"}

\* c.image_uris.map(|imgs| imgs.small.or(imgs.png)...unwrap_or("")).unwrap_or("")
CardImg(c) ==
    IF ~c.image_uris.some THEN NoUrl
    ELSE IF c.image_uris.small # NoUrl THEN c.image_uris.small
    ELSE c.image_uris.png

\* Mutant of ResolvedCard: the new entry starts out complete.
ResolvedCard_StartsFull(quantity, c) ==
    [quantity |-> quantity,
     current_quantity |-> quantity,
     card |-> [name |-> c.name, img |-> CardImg(c)]]

ResolvedCard(quantity, c) ==
    [quantity |-> quantity,
     current_quantity |-> 0,
     card |-> [name |-> c.name, img |-> CardImg(c)]]

CardErrorInsight(card_name, error) == [card_name |-> card_name, error |-> error]

\* Mutant of ProcessLine: a resolved card is put in front of the earlier ones.
ProcessLine_Prepend(acc, i, line, oc) ==
    LET quantity == LineQuantity(line)
        name == LineName(line)
    IN  IF quantity = 0
        THEN [acc EXCEPT !.errors = Append(@, CardErrorInsight(name, "Invalid quantity")),
                         !.error_from = Append(@, i)]
        ELSE IF oc = "ok"
        THEN [acc EXCEPT !.cards = <<ResolvedCard(quantity, Catalog[name])>> \o @,
                         !.card_from = <<i>> \o @,
                         !.lookups = Append(@, [line |-> i, name |-> name])]
        ELSE [acc EXCEPT !.errors = Append(@, CardErrorInsight(name, "catalog error")),
                         !.error_from = Append(@, i),
                         !.lookups = Append(@, [line |-> i, name |-> name])]

\* The loop body of process_decklist for line i (not blank), given the
\* outcome of its lookup.  lookups logs the names the catalog was asked for;
\* card_from and error_from log the line each entry comes from.
ProcessLine(acc, i, line, oc) ==
    LET quantity == LineQuantity(line)
        name == LineName(line)
    IN  IF quantity = 0
        THEN [acc EXCEPT !.errors = Append(@, CardErrorInsight(name, "Invalid quantity")),
                         !.error_from = Append(@, i)]
        ELSE IF oc = "ok"
        THEN [acc EXCEPT !.cards = Append(@, ResolvedCard(quantity, Catalog[name])),
                         !.card_from = Append(@, i),
                         !.lookups = Append(@, [line |-> i, name |-> name])]
        ELSE [acc EXCEPT !.errors = Append(@, CardErrorInsight(name, "catalog error")),
                         !.error_from = Append(@, i),
                         !.lookups = Append(@, [line |-> i, name |-> name])]

EmptyOut ==
    [cards |-> <<>>, errors |-> <<>>, lookups |-> <<>>,
     card_from |-> <<>>, error_from |-> <<>>]

\* Mutant of ProcessFrom: the first line that fails ends the loop.
RECURSIVE ProcessFrom_StopAtError(_, _, _, _)
ProcessFrom_StopAtError(lines, ocs, i, acc) ==
    IF i > Len(lines) THEN acc
    ELSE IF IsBlank(lines[i]) THEN ProcessFrom_StopAtError(lines, ocs, i + 1, acc)
    ELSE LET next == ProcessLine(acc, i, lines[i], ocs[i])
         IN  IF Len(next.errors) > Len(acc.errors) THEN next
             ELSE ProcessFrom_StopAtError(lines, ocs, i + 1, next)

\* process_decklist(decklist): the lines in order, blank lines filtered
\* out.  ocs[i] is what the catalog answers if line i asks it.
RECURSIVE ProcessFrom(_, _, _, _)
ProcessFrom(lines, ocs, i, acc) ==
    IF i > Len(lines) THEN acc
    ELSE IF IsBlank(lines[i]) THEN ProcessFrom(lines, ocs, i + 1, acc)
    ELSE ProcessFrom(lines, ocs, i + 1, ProcessLine(acc, i, lines[i], ocs[i]))

process_decklist(lines, ocs) == ProcessFrom(lines, ocs, 1, EmptyOut)

\* What the catalog would answer for the name of each line of a decklist.
OutcomesOf(lines) ==
    { ocs \in [1..Len(lines) -> Outcomes] :
        \A i \in 1..Len(lines) : ocs[i] \in LookupOutcomes(LineName(lines[i])) }

(***************************************************************************)
(* The application state.                                                  *)
(***************************************************************************)
DeckIds == {"d1", "d2"}

NoDecks == [d \in {} |-> 0]

None == [some |-> FALSE, val |-> <<>>]
Some(v) == [some |-> TRUE, val |-> v]

CardInDeck(quantity, current_quantity, name, img) ==
    [quantity |-> quantity, current_quantity |-> current_quantity,
     card |-> [name |-> name, img |-> img]]

\* The decklists the user types into the editor: nothing, or one card on
\* two lines with different quantities.
AppInputs ==
    { <<>>,
      << [tok |-> <<"1">>, rest |-> <<"bolt">>],
         [tok |-> <<"2">>, rest |-> <<"bolt">>] >> }

\* The card names that occur in the application.
CardNames == {"Lightning Bolt", "Black Lotus"}

\* The search queries the user types.
Queries == {"", "bolt"}

\* The deck stores a file offered to Import can hold.
ImportFiles ==
    { [d \in {"d1", "d2"} |->
        IF d = "d1"
        THEN [cards |-> << CardInDeck(1, 1, "Lightning Bolt", "bolt-small") >>]
        ELSE [cards |-> << CardInDeck(2, 0, "Black Lotus", "lotus-png"),
                           CardInDeck(1, 0, "Lightning Bolt", "bolt-small") >>]],
      [d \in {"d1"} |->
        [cards |-> << CardInDeck(1, 0, "Black Lotus", "lotus-png") >>]] }

Snapshot ==
    [decks |-> decks, card_index |-> card_index,
     deck_in_progress |-> deck_in_progress, search_text |-> search_text,
     search_result |-> search_result, image_cache |-> image_cache,
     fetches |-> fetches]

Msg(op, deck, name, outcome) ==
    [op |-> op, deck |-> deck, name |-> name, outcome |-> outcome]

\* App::default()
AppInit ==
    /\ decks = NoDecks
    /\ card_index = <<>>
    /\ deck_in_progress = None
    /\ search_text = ""
    /\ search_result = <<>>
    /\ image_cache = [n \in {} |-> ""]
    /\ analyses = EmptyBag
    /\ fetches = EmptyBag
    /\ crashed = FALSE
    /\ msg = Msg("none", "-", "-", "-")
    /\ prev = [decks |-> NoDecks, card_index |-> <<>>, deck_in_progress |-> None,
               search_text |-> "", search_result |-> <<>>,
               image_cache |-> [n \in {} |-> ""], fetches |-> EmptyBag]

ResolverIdle ==
    /\ r_input = <<>>
    /\ r_oc = <<>>
    /\ r_out = EmptyOut
    /\ r_done = FALSE

SearchIdle ==
    /\ f_query = ""
    /\ f_cards = <<>>
    /\ f_top = 0
    /\ f_out = <<>>
    /\ f_done = FALSE

\* Nothing has been requested, fetched or deleted yet.
HistoryInit ==
    /\ orphaned = {}
    /\ orphan_delivered = FALSE
    /\ requests = <<>>
    /\ dip_from = [stale |-> FALSE, newest |-> FALSE]

Init == AppInit /\ ResolverIdle /\ SearchIdle /\ HistoryInit

\* Every handler: the application is running, and the message and the
\* state it is handled in are recorded.
Handle(op, deck, name, outcome) ==
    /\ ~crashed
    /\ msg' = Msg(op, deck, name, outcome)
    /\ prev' = Snapshot

(***************************************************************************)
(* Helpers of App::update.                                                 *)
(***************************************************************************)
\* build_card_index(deck_id, cards)
build_card_index(deck_id, cards) ==
    [i \in 1..Len(cards) |->
        [name |-> cards[i].card.name, img |-> cards[i].card.img, deck_id |-> deck_id]]

\* HashMap::insert and HashMap::remove on decks
DecksInsert(ds, id, deck) ==
    [d \in DOMAIN ds \cup {id} |-> IF d = id THEN deck ELSE ds[d]]

DecksRemove(ds, id) == [d \in DOMAIN ds \ {id} |-> ds[d]]

\* Mutant of IndexWithout: the entries of the deleted deck stay.
IndexWithout_KeepsAll(index, id) == index

\* Mutant of IndexWithout: the test is the wrong way round.
RECURSIVE IndexWithout_Inverted(_, _)
IndexWithout_Inverted(index, id) ==
    IF index = <<>> THEN <<>>
    ELSE IF Head(index).deck_id = id
    THEN <<Head(index)>> \o IndexWithout_Inverted(Tail(index), id)
    ELSE IndexWithout_Inverted(Tail(index), id)

\* card_index.iter().filter(|&c| c.deck_id != id).cloned().collect()
RECURSIVE IndexWithout(_, _)
IndexWithout(index, id) ==
    IF index = <<>> THEN <<>>
    ELSE IF Head(index).deck_id # id THEN <<Head(index)>> \o IndexWithout(Tail(index), id)
    ELSE IndexWithout(Tail(index), id)

\* Uuid::new_v4(): an identity the application holds nowhere.
IdsIn(index) == { index[i].deck_id : i \in 1..Len(index) }

FreshIds == DeckIds \ (DOMAIN decks \cup IdsIn(card_index) \cup IdsIn(search_result))

\* SkimMatcherV2::fuzzy_match(choice, pattern): a score when the pattern is
\* a subsequence of the choice (ignoring case), none otherwise; the empty
\* pattern matches everything with score 0.
FuzzyMatch(choice, pattern) ==
    CASE pattern = "" -> [some |-> TRUE, val |-> 0]
      [] pattern = "bolt" /\ choice = "Lightning Bolt" -> [some |-> TRUE, val |-> 95]
      [] OTHER -> [some |-> FALSE, val |-> 0]

\* matcher.fuzzy_match(&c.name, query).unwrap_or(0)
Score(c, query) ==
    LET m == FuzzyMatch(c.name, query) IN IF m.some THEN m.val ELSE 0

\* Mutant of SortedByScore: the scored entries are not sorted.
SortedByScore_Unsorted(cards, query) == cards

\* Mutant of SortedByScore: an unstable sort, entries of one score come
\* out in the opposite order.
SortedByScore_TiesReversed(cards, query) ==
    LET n == Len(cards)
        Before(j, i) ==
            \/ Score(cards[j], query) > Score(cards[i], query)
            \/ Score(cards[j], query) = Score(cards[i], query) /\ j > i
        Rank(i) == 1 + Cardinality({ j \in 1..n : Before(j, i) })
    IN  [k \in 1..n |-> cards[CHOOSE i \in 1..n : Rank(i) = k]]

\* sorted.sort_by(|(_, a), (_, b)| b.cmp(a)): a stable sort, highest score
\* first.  Rank(i) is the place entry i of the index takes.
SortedByScore(cards, query) ==
    LET n == Len(cards)
        Before(j, i) ==
            \/ Score(cards[j], query) > Score(cards[i], query)
            \/ Score(cards[j], query) = Score(cards[i], query) /\ j < i
        Rank(i) == 1 + Cardinality({ j \in 1..n : Before(j, i) })
    IN  [k \in 1..n |-> cards[CHOOSE i \in 1..n : Rank(i) = k]]

\* fuzzy_top_n(query, cards, top)
fuzzy_top_n(query, cards, top) ==
    LET sorted == SortedByScore(cards, query)
        max_results == IF top < Len(sorted) THEN top ELSE Len(sorted)
    IN  SubSeq(sorted, 1, max_results)

TopN == 10

\* Mutant of FetchesFor: the cache is not consulted.
RECURSIVE FetchesFor_All(_)
FetchesFor_All(entries) ==
    IF entries = <<>> THEN EmptyBag
    ELSE SetToBag({[name |-> Head(entries).name, img |-> Head(entries).img]})
             (+) FetchesFor_All(Tail(entries))

\* The download_image tasks a handler starts: one per entry of `entries`
\* (CardInDeck or IndexedCard, as [name, img]) whose name is not cached.
RECURSIVE FetchesFor(_)
FetchesFor(entries) ==
    IF entries = <<>> THEN EmptyBag
    ELSE LET e == Head(entries)
         IN  IF e.name \in DOMAIN image_cache THEN FetchesFor(Tail(entries))
             ELSE SetToBag({[name |-> e.name, img |-> e.img]}) (+) FetchesFor(Tail(entries))

CardsAsEntries(cards) ==
    [i \in 1..Len(cards) |-> [name |-> cards[i].card.name, img |-> cards[i].card.img]]

IndexAsEntries(index) ==
    [i \in 1..Len(index) |-> [name |-> index[i].name, img |-> index[i].img]]

\* Mutant of AdjustCards: the filter on the name is missing.
AdjustCards_EveryEntry(cards, card_name, delta) ==
    [i \in 1..Len(cards) |-> [cards[i] EXCEPT !.current_quantity = @ + delta]]

\* deck.cards.iter_mut().filter(|c| c.card.name == card_name)
\*     .for_each(|c| c.current_quantity += delta)
AdjustCards(cards, card_name, delta) ==
    [i \in 1..Len(cards) |->
        IF cards[i].card.name = card_name
        THEN [cards[i] EXCEPT !.current_quantity = @ + delta]
        ELSE cards[i]]

\* The model follows current_quantity from -MaxDebt to MaxCur only.
WithinModel(cards) ==
    \A i \in 1..Len(cards) :
        /\ cards[i].current_quantity <= MaxCur
        /\ cards[i].current_quantity >= 0 - MaxDebt

\* The orders a HashMap can iterate its keys in.
Orders(S) == { o \in [1..Cardinality(S) -> S] : \A d \in S : \E i \in DOMAIN o : o[i] = d }

\* Mutant of IndexOf: the index is not emptied first.
RECURSIVE IndexOf_KeepsOld(_, _)
IndexOf_KeepsOld(ds, order) ==
    IF order = <<>> THEN card_index
    ELSE IndexOf_KeepsOld(ds, SubSeq(order, 1, Len(order) - 1))
             \o build_card_index(order[Len(order)], ds[order[Len(order)]].cards)

RECURSIVE IndexOf(_, _)
IndexOf(ds, order) ==
    IF order = <<>> THEN <<>>
    ELSE build_card_index(Head(order), ds[Head(order)].cards) \o IndexOf(ds, Tail(order))

(***************************************************************************)
(* App::update, one action per message.                                    *)
(***************************************************************************)
\* AppMessage::AnalyzeDeck: starts process_decklist on the editor's text,
\* which is whatever the user has typed by then.
AnalyzeDeck(input) ==
    /\ Handle("AnalyzeDeck", "-", "-", "-")
    /\ analyses' = analyses (+) SetToBag({input})
    /\ UNCHANGED <<decks, card_index, deck_in_progress, search_text,
                   search_result, image_cache, fetches, crashed>>

\* AppMessage::AnalyzeDeckFinish: a process_decklist task returns.
AnalyzeDeckFinish(input, ocs) ==
    /\ Handle("AnalyzeDeckFinish", "-", "-", "-")
    /\ BagIn(input, analyses)
    /\ analyses' = analyses (-) SetToBag({input})
    /\ deck_in_progress' = Some(process_decklist(input, ocs).cards)
    /\ UNCHANGED <<decks, card_index, search_text, search_result,
                   image_cache, fetches, crashed>>

\* AppMessage::CreateDeck with deck_in_progress None: expect("oops") panics
\* before anything is written.
CreateDeckPanic ==
    /\ Handle("CreateDeck", "-", "-", "panic")
    /\ ~deck_in_progress.some
    /\ crashed' = TRUE
    /\ UNCHANGED <<decks, card_index, deck_in_progress, search_text,
                   search_result, image_cache, analyses, fetches>>

\* AppMessage::CreateDeck with a resolution in hand.
CreateDeckOk(deck_id) ==
    /\ Handle("CreateDeck", deck_id, "-", "ok")
    /\ deck_in_progress.some
    /\ deck_id \in FreshIds
    /\ decks' = DecksInsert(decks, deck_id, [cards |-> deck_in_progress.val])
    /\ card_index' = card_index \o build_card_index(deck_id, deck_in_progress.val)
    /\ deck_in_progress' = None
    /\ UNCHANGED <<search_text, search_result, image_cache, analyses, fetches, crashed>>

CreateDeck == CreateDeckPanic \/ \E deck_id \in DeckIds : CreateDeckOk(deck_id)

\* view_card_result: app.decks.get(&card.deck_id).unwrap() succeeds.
ResultRenders(card) == card.deck_id \in DOMAIN decks

\* AppMessage::ViewDeck(id)
ViewDeck(id) ==
    /\ Handle("ViewDeck", id, "-", "-")
    /\ fetches' = IF id \in DOMAIN decks
                  THEN fetches (+) FetchesFor(CardsAsEntries(decks[id].cards))
                  ELSE fetches
    /\ BagCardinality(fetches') <= MaxFetches
    /\ UNCHANGED <<decks, card_index, deck_in_progress, search_text,
                   search_result, image_cache, analyses, crashed>>

\* AppMessage::DeleteDeck(id)
DeleteDeck(id) ==
    /\ Handle("DeleteDeck", id, "-", "-")
    /\ decks' = DecksRemove(decks, id)
    /\ card_index' = IndexWithout(card_index, id)
    /\ UNCHANGED <<deck_in_progress, search_text, search_result,
                   image_cache, analyses, fetches, crashed>>

\* AppMessage::Search(query)
Search(query) ==
    /\ Handle("Search", "-", query, "-")
    /\ search_text' = query
    /\ search_result' = fuzzy_top_n(query, card_index, TopN)
    /\ fetches' = fetches (+) FetchesFor(IndexAsEntries(search_result'))
    /\ BagCardinality(fetches') <= MaxFetches
    /\ UNCHANGED <<decks, card_index, deck_in_progress, image_cache,
                   analyses, crashed>>

\* download_image(name, img): the bytes at img, or nothing.  An empty
\* reference cannot be fetched.
NoBytes == [some |-> FALSE, val |-> ""]

DownloadResults(f) ==
    IF f.img = NoUrl THEN {NoBytes} ELSE {NoBytes, Some(f.img)}

\* Mutant of CacheUpdate: the result of a fetch is never stored.
CacheUpdate_Drops(cache, name, bytes) == cache

\* Mutant of CacheUpdate: a failed fetch takes the entry of its key away.
CacheUpdate_FailureClears(cache, name, bytes) ==
    IF bytes.some
    THEN [n \in DOMAIN cache \cup {name} |-> IF n = name THEN bytes.val ELSE cache[n]]
    ELSE [n \in DOMAIN cache \ {name} |-> cache[n]]

\* match bytes { Some(b) => { image_cache.insert(name, b); } None => {} }
CacheUpdate(cache, name, bytes) ==
    IF bytes.some
    THEN [n \in DOMAIN cache \cup {name} |-> IF n = name THEN bytes.val ELSE cache[n]]
    ELSE cache

\* AppMessage::UpdateImageCache(name, bytes): a download_image task returns.
UpdateImageCache(f, bytes) ==
    /\ Handle("UpdateImageCache", "-", f.name, IF bytes.some THEN "some" ELSE "none")
    /\ BagIn(f, fetches)
    /\ fetches' = fetches (-) SetToBag({f})
    /\ image_cache' = CacheUpdate(image_cache, f.name, bytes)
    /\ UNCHANGED <<decks, card_index, deck_in_progress, search_text,
                   search_result, analyses, crashed>>

\* AppMessage::AddCard / RemoveCard (deck_id, card_name)
Adjust(op, deck_id, card_name, delta) ==
    /\ Handle(op, deck_id, card_name, "-")
    /\ decks' = IF deck_id \in DOMAIN decks
                THEN [decks EXCEPT ![deck_id].cards = AdjustCards(@, card_name, delta)]
                ELSE decks
    /\ \A d \in DOMAIN decks' : WithinModel(decks'[d].cards)
    /\ UNCHANGED <<card_index, deck_in_progress, search_text,
                   search_result, image_cache, analyses, fetches, crashed>>

AddCard(deck_id, card_name) == Adjust("AddCard", deck_id, card_name, 1)

RemoveCard(deck_id, card_name) == Adjust("RemoveCard", deck_id, card_name, 0 - 1)

\* AppMessage::Import, the dialog cancelled or failed: nothing happens.
ImportCancel ==
    /\ Handle("Import", "-", "-", "cancel")
    /\ UNCHANGED <<decks, card_index, deck_in_progress, search_text,
                   search_result, image_cache, analyses, fetches, crashed>>

\* AppMessage::Import, the file unreadable (read_to_string(..).unwrap()) or
\* its content malformed (from_str(..).unwrap()): the handler panics before
\* it has written anything.
ImportPanic(why) ==
    /\ Handle("Import", "-", "-", why)
    /\ crashed' = TRUE
    /\ UNCHANGED <<decks, card_index, deck_in_progress, search_text,
                   search_result, image_cache, analyses, fetches>>

\* AppMessage::Import of a well-formed file; `order` is the order the new
\* HashMap iterates in.
ImportOk(file, order) ==
    /\ Handle("Import", "-", "-", "ok")
    /\ decks' = file
    /\ search_result' = <<>>
    /\ image_cache' = [n \in {} |-> ""]
    /\ search_text' = ""
    /\ card_index' = IndexOf(file, order)
    /\ UNCHANGED <<deck_in_progress, analyses, fetches, crashed>>

Import ==
    \/ ImportCancel
    \/ \E why \in {"unreadable", "malformed"} : ImportPanic(why)
    \/ \E file \in ImportFiles : \E order \in Orders(DOMAIN file) : ImportOk(file, order)

\* AppMessage::Export: the deck store is written out (or the dialog is
\* cancelled); a failed write is ignored.
Export ==
    /\ Handle("Export", "-", "-", "-")
    /\ UNCHANGED <<decks, card_index, deck_in_progress, search_text,
                   search_result, image_cache, analyses, fetches, crashed>>

\* The handlers that work on the deck store.  The other three (ViewDeck,
\* Search, UpdateImageCache) write only search_text, search_result,
\* image_cache and fetches, which none of these reads.
NextDecks ==
    \/ \E input \in AppInputs :
          /\ BagCardinality(analyses) < MaxAnalyses
          /\ AnalyzeDeck(input)
          /\ UNCHANGED outsideDecks
    \/ \E input \in BagToSet(analyses) : \E ocs \in OutcomesOf(input) :
          AnalyzeDeckFinish(input, ocs) /\ UNCHANGED outsideDecks
    \/ CreateDeck /\ UNCHANGED outsideDecks
    \/ \E id \in DeckIds : DeleteDeck(id) /\ UNCHANGED outsideDecks
    \/ \E id \in DeckIds : \E n \in CardNames : AddCard(id, n) /\ UNCHANGED outsideDecks
    \/ \E id \in DeckIds : \E n \in CardNames : RemoveCard(id, n) /\ UNCHANGED outsideDecks
    \/ Import /\ UNCHANGED outsideDecks
    \/ Export /\ UNCHANGED outsideDecks

SpecDecks == Init /\ [][NextDecks]_vars

\* Whether a card of that name is among `cards`.
HoldsName(cards, name) == \E i \in 1..Len(cards) : cards[i].card.name = name

\* The fetches in flight for a card that is in deck `id` and in no other.
OrphanedBy(id) ==
    IF id \in DOMAIN decks
    THEN { f \in BagToSet(fetches) :
             /\ HoldsName(decks[id].cards, f.name)
             /\ \A d \in DOMAIN decks \ {id} : ~HoldsName(decks[d].cards, f.name) }
    ELSE {}

\* The history of the fetches in flight: DeleteDeck orphans those of the
\* deleted deck's own cards, a completion says whether its fetch was one,
\* and an Import, which brings new decks, starts afresh.
TrackDelete(id) ==
    /\ orphaned' = orphaned \cup OrphanedBy(id)
    /\ UNCHANGED orphan_delivered

TrackCompletion(f) ==
    /\ orphan_delivered' = (f \in orphaned)
    /\ orphaned' = IF BagIn(f, fetches') THEN orphaned ELSE orphaned \ {f}

TrackImport ==
    /\ orphaned' = IF msg'.outcome = "ok" THEN {} ELSE orphaned
    /\ UNCHANGED orphan_delivered

\* The handlers that work on the card index, the search and the image
\* cache, with the decks an Import brings.  AddCard and RemoveCard write
\* only current_quantity, which none of these reads.
NextImages ==
    \/ \E id \in DeckIds :
          ViewDeck(id) /\ UNCHANGED fetchHistory /\ UNCHANGED outsideImages
    \/ \E id \in DeckIds :
          DeleteDeck(id) /\ TrackDelete(id) /\ UNCHANGED outsideImages
    \/ \E query \in Queries :
          Search(query) /\ UNCHANGED fetchHistory /\ UNCHANGED outsideImages
    \/ \E f \in BagToSet(fetches) : \E bytes \in DownloadResults(f) :
          UpdateImageCache(f, bytes) /\ TrackCompletion(f) /\ UNCHANGED outsideImages
    \/ Import /\ TrackImport /\ UNCHANGED outsideImages
    \/ Export /\ UNCHANGED fetchHistory /\ UNCHANGED outsideImages

SpecImages == Init /\ [][NextImages]_vars


(***************************************************************************)
(* The application as its views let the user drive it: a message is sent   *)
(* only by a button the view shows enabled.                                *)
(***************************************************************************)
\* deck.cards.iter().find(|&c| c.card.name == card.name)
FirstNamed(cards, name) ==
    IF HoldsName(cards, name)
    THEN Some(cards[CHOOSE i \in 1..Len(cards) :
                       /\ cards[i].card.name = name
                       /\ \A j \in 1..(i - 1) : cards[j].card.name # name])
    ELSE None

\* view_card_in_deck: should_allow_add / should_allow_remove of an entry
should_allow_add(c) == c.current_quantity < c.quantity

should_allow_remove(c) == c.current_quantity > 0

\* view_card_result: the same two tests on the first entry of that name in
\* the deck, 0 < 0 and 0 > 0 when the deck has none.
result_allows_add(card) ==
    LET card_in_deck == FirstNamed(decks[card.deck_id].cards, card.name)
    IN  card_in_deck.some /\ should_allow_add(card_in_deck.val)

result_allows_remove(card) ==
    LET card_in_deck == FirstNamed(decks[card.deck_id].cards, card.name)
    IN  card_in_deck.some /\ should_allow_remove(card_in_deck.val)

\* view_add_deck: the "Create deck" button exists while a resolution is in
\* hand.
PressCreateDeck ==
    /\ deck_in_progress.some
    /\ CreateDeck

\* view_card_in_deck: the buttons of entry i of deck deck_id.
PressAddInDeck(deck_id, i) ==
    /\ deck_id \in DOMAIN decks
    /\ i \in 1..Len(decks[deck_id].cards)
    /\ should_allow_add(decks[deck_id].cards[i])
    /\ AddCard(deck_id, decks[deck_id].cards[i].card.name)

PressRemoveInDeck(deck_id, i) ==
    /\ deck_id \in DOMAIN decks
    /\ i \in 1..Len(decks[deck_id].cards)
    /\ should_allow_remove(decks[deck_id].cards[i])
    /\ RemoveCard(deck_id, decks[deck_id].cards[i].card.name)

\* view_card_result: the buttons of entry k of the search results.
PressAddInResult(k) ==
    /\ k \in 1..Len(search_result)
    /\ ResultRenders(search_result[k])
    /\ result_allows_add(search_result[k])
    /\ AddCard(search_result[k].deck_id, search_result[k].name)

PressRemoveInResult(k) ==
    /\ k \in 1..Len(search_result)
    /\ ResultRenders(search_result[k])
    /\ result_allows_remove(search_result[k])
    /\ RemoveCard(search_result[k].deck_id, search_result[k].name)

\* The positions an entry can have in a deck or in the search results.
Positions == 1..(MaxLines * Cardinality(DeckIds))

NextView ==
    \/ \E input \in AppInputs :
          /\ BagCardinality(analyses) < MaxAnalyses
          /\ AnalyzeDeck(input)
          /\ UNCHANGED outsideDecks
    \/ \E input \in BagToSet(analyses) : \E ocs \in OutcomesOf(input) :
          AnalyzeDeckFinish(input, ocs) /\ UNCHANGED outsideDecks
    \/ PressCreateDeck /\ UNCHANGED outsideDecks
    \/ \E query \in Queries : Search(query) /\ UNCHANGED outsideDecks
    \/ \E f \in BagToSet(fetches) : \E bytes \in DownloadResults(f) :
          UpdateImageCache(f, bytes) /\ UNCHANGED outsideDecks
    \/ \E id \in DeckIds : \E i \in Positions :
          PressAddInDeck(id, i) /\ UNCHANGED outsideDecks
    \/ \E id \in DeckIds : \E i \in Positions :
          PressRemoveInDeck(id, i) /\ UNCHANGED outsideDecks
    \/ \E k \in Positions : PressAddInResult(k) /\ UNCHANGED outsideDecks
    \/ \E k \in Positions : PressRemoveInResult(k) /\ UNCHANGED outsideDecks

SpecView == Init /\ [][NextView]_vars

(***************************************************************************)
(* The analyses in flight, followed in the order they were requested.      *)
(***************************************************************************)
\* The history of the analyses: a request is the newest until the next
\* one is made, and is stale once CreateDeck was handled while it was in
\* flight; deck_in_progress is from the request that completed last.
TrackRequest(input) ==
    /\ requests' = [k \in 1..Len(requests) |-> [requests[k] EXCEPT !.newest = FALSE]]
                       \o << [input |-> input, stale |-> FALSE, newest |-> TRUE] >>
    /\ dip_from' = [dip_from EXCEPT !.newest = FALSE]

TrackFinish(k) ==
    /\ requests' = SubSeq(requests, 1, k - 1) \o SubSeq(requests, k + 1, Len(requests))
    /\ dip_from' = [stale |-> requests[k].stale, newest |-> requests[k].newest]

TrackCreate ==
    /\ requests' = IF msg'.outcome = "ok"
                   THEN [k \in 1..Len(requests) |-> [requests[k] EXCEPT !.stale = TRUE]]
                   ELSE requests
    /\ UNCHANGED dip_from

NextAnalyze ==
    \/ \E input \in AppInputs :
          /\ BagCardinality(analyses) < MaxPending
          /\ AnalyzeDeck(input)
          /\ TrackRequest(input)
          /\ UNCHANGED outsideAnalyses
    \/ \E k \in DOMAIN requests : \E ocs \in OutcomesOf(requests[k].input) :
          /\ AnalyzeDeckFinish(requests[k].input, ocs)
          /\ TrackFinish(k)
          /\ UNCHANGED outsideAnalyses
    \/ PressCreateDeck /\ TrackCreate /\ UNCHANGED outsideAnalyses

SpecAnalyze == Init /\ [][NextAnalyze]_vars

(***************************************************************************)
(* The resolver on its own: any decklist, any answers of the catalog.      *)
(***************************************************************************)
InitResolve ==
    /\ AppInit
    /\ r_input \in Decklists
    /\ r_oc \in OutcomesOf(r_input)
    /\ r_out = EmptyOut
    /\ r_done = FALSE
    /\ SearchIdle
    /\ HistoryInit

Resolve ==
    /\ ~r_done
    /\ r_out' = process_decklist(r_input, r_oc)
    /\ r_done' = TRUE
    /\ UNCHANGED <<r_input, r_oc>>
    /\ UNCHANGED <<appVars, searchVars, fetchHistory, analysisHistory>>

NextResolve == Resolve

SpecResolve == InitResolve /\ [][NextResolve]_vars

(***************************************************************************)
(* The search on its own: any index, query and limit.                      *)
(***************************************************************************)
\* The entries an index can hold: a card of the catalog in a deck.
IndexedCards ==
    { [name |-> Catalog[n].name, img |-> CardImg(Catalog[n]), deck_id |-> d] :
        n \in DOMAIN Catalog, d \in DeckIds }

Indexes == SeqsUpTo(IndexedCards, MaxIndex)

InitSearch ==
    /\ AppInit
    /\ ResolverIdle
    /\ HistoryInit
    /\ f_query \in Queries
    /\ f_cards \in Indexes
    /\ f_top \in 0..MaxTop
    /\ f_out = <<>>
    /\ f_done = FALSE

FuzzyTopN ==
    /\ ~f_done
    /\ f_out' = fuzzy_top_n(f_query, f_cards, f_top)
    /\ f_done' = TRUE
    /\ UNCHANGED <<f_query, f_cards, f_top>>
    /\ UNCHANGED <<appVars, resolverVars, fetchHistory, analysisHistory>>

NextSearch == FuzzyTopN

SpecSearch == InitSearch /\ [][NextSearch]_vars

(***************************************************************************)
(* Properties of the resolver (checked under SpecResolve).                 *)
(***************************************************************************)
\* The first token of a line is a positive integer: digits only, not zero.
IsPositiveInteger(tok) ==
    /\ tok # <<>>
    /\ \A i \in 1..Len(tok) : tok[i] \in Digits
    /\ DecimalValue(tok) > 0

NonBlank == { i \in 1..Len(r_input) : ~IsBlank(r_input[i]) }

Occurrences(s, x) == Cardinality({ k \in 1..Len(s) : s[k] = x })

LookedUp(i) == \E k \in 1..Len(r_out.lookups) : r_out.lookups[k].line = i

HasInvalidQuantityError(i) ==
    \E k \in 1..Len(r_out.errors) :
        /\ r_out.error_from[k] = i
        /\ r_out.errors[k] = CardErrorInsight(LineName(r_input[i]), "Invalid quantity")

\* C5: every non-blank line whose first token is not a positive integer
\* yields an "Invalid quantity" error and no catalog lookup, so no resolved
\* card has a quantity of zero or less.
C5_InvalidQuantity ==
    r_done =>
        /\ \A i \in NonBlank :
              ~IsPositiveInteger(r_input[i].tok) =>
                  HasInvalidQuantityError(i) /\ ~LookedUp(i)
        /\ \A k \in 1..Len(r_out.cards) : r_out.cards[k].quantity > 0

\* The lines with a positive leading integer whose name the catalog resolves.
Resolvable ==
    { i \in NonBlank : IsPositiveInteger(r_input[i].tok) /\ r_oc[i] = "ok" }

\* C6: a line with a positive leading integer q and a name the catalog
\* resolves yields a CardInDeck with quantity q, current_quantity 0 and the
\* catalog's canonical name and image.
C6_ResolvedEntry ==
    r_done =>
        \A i \in Resolvable :
            \E k \in 1..Len(r_out.cards) :
                LET canonical == Catalog[LineName(r_input[i])]
                IN  /\ r_out.card_from[k] = i
                    /\ r_out.cards[k].quantity = DecimalValue(r_input[i].tok)
                    /\ r_out.cards[k].current_quantity = 0
                    /\ r_out.cards[k].card.name = canonical.name
                    /\ r_out.cards[k].card.img = CardImg(canonical)

\* C6 witness: a resolved line whose canonical name is not what was typed.
C6_Witness ==
    /\ r_done
    /\ \E i \in Resolvable :
          /\ DecimalValue(r_input[i].tok) = 2
          /\ LineName(r_input[i]) = "black lotus"
          /\ \E k \in 1..Len(r_out.cards) : r_out.cards[k].card.name = "Black Lotus"

\* C7: every non-blank line puts exactly one entry into exactly one of
\* cards and errors, whatever happened to the lines before it; blank lines
\* put nothing; so the two outputs together are no longer than the number
\* of non-blank lines.
C7_LinesIndependent ==
    r_done =>
        /\ Len(r_out.card_from) = Len(r_out.cards)
        /\ Len(r_out.error_from) = Len(r_out.errors)
        /\ \A i \in NonBlank :
              Occurrences(r_out.card_from, i) + Occurrences(r_out.error_from, i) = 1
        /\ \A i \in (1..Len(r_input)) \ NonBlank :
              Occurrences(r_out.card_from, i) + Occurrences(r_out.error_from, i) = 0
        /\ Len(r_out.cards) + Len(r_out.errors) <= Cardinality(NonBlank)

\* C7 witness: a line that fails in the catalog, then a line that resolves.
C7_Witness ==
    /\ r_done
    /\ \E i, j \in NonBlank :
          /\ i < j
          /\ LookedUp(i)
          /\ Occurrences(r_out.error_from, i) = 1
          /\ Occurrences(r_out.card_from, j) = 1

\* The lines process_decklist resolves, in the order of the input.
ResolvedLines ==
    { i \in NonBlank : LineQuantity(r_input[i]) # 0 /\ r_oc[i] = "ok" }

\* The k-th smallest element of a set of line numbers.
Nth(S, k) == CHOOSE i \in S : Cardinality({ j \in S : j <= i }) = k

\* C8: the resolved cards are the resolved lines in the order of the input.
C8_InputOrder ==
    r_done =>
        /\ Len(r_out.cards) = Cardinality(ResolvedLines)
        /\ \A k \in 1..Len(r_out.cards) :
              LET i == Nth(ResolvedLines, k)
              IN  /\ r_out.cards[k].quantity = LineQuantity(r_input[i])
                  /\ r_out.cards[k].card.name = Catalog[LineName(r_input[i])].name

\* C8 witness: two lines resolve, to entries that differ.
C8_Witness ==
    /\ r_done
    /\ Len(r_out.cards) = 2
    /\ r_out.cards[1] # r_out.cards[2]

(***************************************************************************)
(* Properties of the deck store and the card index (checked under          *)
(* SpecDecks) and of Import (checked under SpecImages).                    *)
(***************************************************************************)
\* C1: every CardInDeck of every deck has 0 <= current_quantity <= quantity.
C1_QuantityInRange ==
    \A d \in DOMAIN decks :
        \A i \in 1..Len(decks[d].cards) :
            /\ 0 <= decks[d].cards[i].current_quantity
            /\ decks[d].cards[i].current_quantity <= decks[d].cards[i].quantity

\* The entries AddCard / RemoveCard was aimed at, in the state it was
\* handled in.
Targets ==
    IF msg.deck \in DOMAIN prev.decks
    THEN { i \in 1..Len(prev.decks[msg.deck].cards) :
             prev.decks[msg.deck].cards[i].card.name = msg.name }
    ELSE {}

TargetsAtZero ==
    /\ Targets # {}
    /\ \A i \in Targets : prev.decks[msg.deck].cards[i].current_quantity = 0

TargetsComplete ==
    /\ Targets # {}
    /\ \A i \in Targets :
          prev.decks[msg.deck].cards[i].current_quantity =
              prev.decks[msg.deck].cards[i].quantity

\* C2: RemoveCard on entries at 0 and AddCard on entries at their quantity
\* leave the deck store as it was.
C2_NoOpAtBounds ==
    /\ (msg.op = "RemoveCard" /\ TargetsAtZero) => decks = prev.decks
    /\ (msg.op = "AddCard" /\ TargetsComplete) => decks = prev.decks

\* The index entries the deck store calls for, and how often an entry
\* occurs in the store and in the index.
StoreEntries ==
    UNION { { [name |-> decks[d].cards[i].card.name,
               img |-> decks[d].cards[i].card.img,
               deck_id |-> d] : i \in 1..Len(decks[d].cards) } : d \in DOMAIN decks }

IndexEntries == { card_index[k] : k \in 1..Len(card_index) }

CountInStore(e) ==
    IF e.deck_id \in DOMAIN decks
    THEN Cardinality({ i \in 1..Len(decks[e.deck_id].cards) :
                         /\ decks[e.deck_id].cards[i].card.name = e.name
                         /\ decks[e.deck_id].cards[i].card.img = e.img })
    ELSE 0

CountInIndex(e) == Cardinality({ k \in 1..Len(card_index) : card_index[k] = e })

\* C3: the card index holds one IndexedCard per CardInDeck of every deck in
\* the store and nothing else (as a multiset); so every entry's deck exists.
C3_IndexIsProjection ==
    /\ \A e \in StoreEntries \cup IndexEntries : CountInIndex(e) = CountInStore(e)
    /\ \A k \in 1..Len(card_index) : card_index[k].deck_id \in DOMAIN decks

\* C3 witness: a deck was deleted and another, with two entries of one
\* name, is still indexed.
C3_Witness ==
    /\ msg.op = "DeleteDeck"
    /\ msg.deck \in DOMAIN prev.decks
    /\ Len(prev.decks[msg.deck].cards) >= 1
    /\ \E d \in DOMAIN decks : Len(decks[d].cards) = 2
    /\ Len(card_index) = 2

\* C4: DeleteDeck(id) removes deck id and exactly the index entries of deck
\* id; the other entries keep their value and order, the other decks stay.
C4_DeleteDeckFrame ==
    msg.op = "DeleteDeck" =>
        /\ DOMAIN decks = DOMAIN prev.decks \ {msg.deck}
        /\ \A d \in DOMAIN decks : decks[d] = prev.decks[d]
        /\ card_index = SelectSeq(prev.card_index, LAMBDA c : c.deck_id # msg.deck)

\* C4 witness: a delete that took entries out of the index, from in front
\* of two entries that stay.
C4_Witness ==
    /\ msg.op = "DeleteDeck"
    /\ Len(card_index) = 2
    /\ card_index[1] # card_index[2]
    /\ Len(prev.card_index) > 2
    /\ prev.card_index[1].deck_id = msg.deck

\* The Import that was handled failed: the file could not be read or its
\* content was malformed.
ImportFailed == msg.op = "Import" /\ msg.outcome \in {"unreadable", "malformed"}

\* C9: a failed import does not terminate the application and leaves the
\* deck store, the card index, the image cache and the search as they were.
C9_ImportFailureConfined ==
    ImportFailed => ~crashed /\ Snapshot = prev

\* C10: CreateDeck with a resolution in hand adds one deck under a new
\* identity with the resolved cards in order and leaves the others; without
\* one it changes neither store nor index and the application goes on.
C10_CreateDeck ==
    msg.op = "CreateDeck" =>
        IF prev.deck_in_progress.some
        THEN /\ ~crashed
             /\ \E id \in DOMAIN decks \ DOMAIN prev.decks :
                   /\ DOMAIN decks = DOMAIN prev.decks \cup {id}
                   /\ decks[id].cards = prev.deck_in_progress.val
             /\ \A d \in DOMAIN prev.decks : decks[d] = prev.decks[d]
        ELSE /\ ~crashed
             /\ decks = prev.decks
             /\ card_index = prev.card_index

(***************************************************************************)
(* Properties of the search (checked under SpecSearch).                    *)
(***************************************************************************)
Min(a, b) == IF a < b THEN a ELSE b

\* How often entry e occurs in the sequence s.
CountIn(s, e) == Cardinality({ k \in 1..Len(s) : s[k] = e })

\* The entries of the index the result leaves out.
Omitted == { e \in IndexedCards : CountIn(f_cards, e) > CountIn(f_out, e) }

\* C11: fuzzy_top_n with limit N returns exactly min(N, len(index))
\* entries, each an entry of the index (no more often than the index holds
\* it), in non-increasing order of score, and no entry it leaves out scores
\* strictly higher than one it returns.
C11_TopNByScore ==
    f_done =>
        /\ Len(f_out) = Min(f_top, Len(f_cards))
        /\ \A k \in 1..Len(f_out) : CountIn(f_out, f_out[k]) <= CountIn(f_cards, f_out[k])
        /\ \A k \in 1..(Len(f_out) - 1) :
              Score(f_out[k], f_query) >= Score(f_out[k + 1], f_query)
        /\ \A e \in Omitted : \A k \in 1..Len(f_out) :
              Score(e, f_query) <= Score(f_out[k], f_query)

\* C11 witness: the limit cut the result short, and the index had a
\* matching entry behind one that does not match, which is left out.
C11_Witness ==
    /\ f_done
    /\ f_top = 2
    /\ Len(f_cards) = 3
    /\ Score(f_cards[1], f_query) < Score(f_cards[3], f_query)
    /\ Score(f_cards[2], f_query) = Score(f_cards[3], f_query)
    /\ f_cards[1] \in Omitted

\* The entries of s that score v for the query, in the order of s.
ScoredAs(s, v) == SelectSeq(s, LAMBDA c : Score(c, f_query) = v)

IsPrefix(s, t) == Len(s) <= Len(t) /\ s = SubSeq(t, 1, Len(s))

\* C12: entries of equal score come out in the order they have in the
\* index, earliest first, which with C11 leaves one possible result for a
\* query and an index; an empty query returns the first
\* min(limit, len(index)) entries of the index in index order.
C12_StableTies ==
    f_done =>
        /\ \A k \in 1..Len(f_out) :
              LET v == Score(f_out[k], f_query)
              IN  IsPrefix(ScoredAs(f_out, v), ScoredAs(f_cards, v))
        /\ f_query = "" => f_out = SubSeq(f_cards, 1, Min(f_top, Len(f_cards)))

\* C12 witness: two different entries of the same score were returned
\* behind an entry the sort moved in front of them.
C12_Witness ==
    /\ f_done
    /\ f_query = "bolt"
    /\ Len(f_out) = 3
    /\ f_out[1] = f_cards[3]
    /\ f_out[2] # f_out[3]
    /\ Score(f_out[2], f_query) = Score(f_out[3], f_query)

(***************************************************************************)
(* Properties of the image cache, the search results and Import (checked   *)
(* under SpecImages).                                                      *)
(***************************************************************************)
\* The message handled last completed a fetch that was in flight when the
\* only deck holding its card was deleted.
OrphanCompleted == msg.op = "UpdateImageCache" /\ orphan_delivered

\* C13: when a deck is deleted while a fetch for a card of that deck alone
\* is in flight, the completion of the fetch does not end the application
\* and leaves the image cache as it was.
C13_OrphanDropped ==
    OrphanCompleted => ~crashed /\ image_cache = prev.image_cache

\* The bytes the fetches in flight for `name` could bring.
BytesInFlightFor(name) == { f.img : f \in { g \in BagToSet(prev.fetches) : g.name = name } }

\* C13 (amended): such a completion does not end the application and
\* changes neither decks, index nor search; a failed fetch leaves the cache
\* as it was, a successful one stores its bytes under the card's name and
\* leaves every other entry of the cache as it was.
C13_OrphanStored ==
    OrphanCompleted =>
        /\ ~crashed
        /\ decks = prev.decks /\ card_index = prev.card_index
        /\ search_text = prev.search_text /\ search_result = prev.search_result
        /\ msg.outcome = "none" => image_cache = prev.image_cache
        /\ msg.outcome = "some" =>
              /\ DOMAIN image_cache = DOMAIN prev.image_cache \cup {msg.name}
              /\ image_cache[msg.name] \in BytesInFlightFor(msg.name)
              /\ \A n \in DOMAIN prev.image_cache \ {msg.name} :
                    image_cache[n] = prev.image_cache[n]

\* C13 witness: the fetch of a deleted deck's card came back with bytes,
\* no deck holds the card any more, and the cache held another card.
C13_Witness ==
    /\ OrphanCompleted
    /\ msg.outcome = "some"
    /\ \A d \in DOMAIN decks : ~HoldsName(decks[d].cards, msg.name)
    /\ msg.name \notin DOMAIN prev.image_cache
    /\ prev.image_cache # [n \in {} |-> ""]

\* C14: the completion of a failed fetch (no bytes) leaves the image cache
\* as it was: no entry is removed or overwritten, in particular not one a
\* successful fetch for the same key stored before.
C14_FailureKeepsCache ==
    (msg.op = "UpdateImageCache" /\ msg.outcome = "none") =>
        image_cache = prev.image_cache

\* C14 witness: a fetch failed for a key that a successful fetch had
\* filled before.
C14_Witness ==
    /\ msg.op = "UpdateImageCache"
    /\ msg.outcome = "none"
    /\ msg.name \in DOMAIN prev.image_cache
    /\ msg.name \in DOMAIN image_cache

\* C15: after a successful Import the deck store is an imported file and
\* nothing else, the card index is the projection of these decks, and the
\* image cache, the search query and the search results are empty.
C15_ImportReplaces ==
    (msg.op = "Import" /\ msg.outcome = "ok") =>
        /\ decks \in ImportFiles
        /\ \A e \in StoreEntries \cup IndexEntries : CountInIndex(e) = CountInStore(e)
        /\ Len(card_index) = Cardinality(UNION { {<<d, i>> : i \in 1..Len(decks[d].cards)} :
                                                    d \in DOMAIN decks })
        /\ image_cache = [n \in {} |-> ""]
        /\ search_text = ""
        /\ search_result = <<>>

\* C15 witness: the import replaced a deck store of which a deck did not
\* survive, a filled image cache and a search with results.
C15_Witness ==
    /\ msg.op = "Import" /\ msg.outcome = "ok"
    /\ DOMAIN prev.decks \ DOMAIN decks # {}
    /\ prev.image_cache # [n \in {} |-> ""]
    /\ prev.search_result # <<>>
    /\ prev.search_text # ""

\* The fetches the message handled last has started.
Issued == fetches (-) prev.fetches

\* C17: ViewDeck and Search start a fetch only for a name that has no
\* entry in the image cache when the message is handled.
C17_NoFetchOnHit ==
    msg.op \in {"ViewDeck", "Search"} =>
        /\ prev.fetches (+) Issued = fetches
        /\ \A f \in BagToSet(Issued) : f.name \notin DOMAIN prev.image_cache

\* C17 witness: a deck was viewed of which one card was cached and another
\* was not; a fetch was started.
C17_Witness ==
    /\ msg.op = "ViewDeck"
    /\ msg.deck \in DOMAIN prev.decks
    /\ \E i \in 1..Len(prev.decks[msg.deck].cards) :
          prev.decks[msg.deck].cards[i].card.name \in DOMAIN prev.image_cache
    /\ Issued # EmptyBag

\* C18: every entry of the search results is of a deck in the store, so
\* that rendering it finds its deck.
C18_SearchResultsLive ==
    \A k \in 1..Len(search_result) : ResultRenders(search_result[k])

(***************************************************************************)
(* The frame of AddCard and RemoveCard (checked under SpecDecks).          *)
(***************************************************************************)
\* C16: AddCard / RemoveCard (deck_id, card_name) change nothing but the
\* current_quantity of the entries of deck deck_id named card_name: the
\* card index, every quantity and card, the entries of other names and the
\* other decks stay, and with an unknown deck_id the deck store stays.
C16_AdjustFrame ==
    msg.op \in {"AddCard", "RemoveCard"} =>
        /\ card_index = prev.card_index
        /\ deck_in_progress = prev.deck_in_progress
        /\ search_text = prev.search_text /\ search_result = prev.search_result
        /\ image_cache = prev.image_cache
        /\ DOMAIN decks = DOMAIN prev.decks
        /\ \A d \in DOMAIN decks \ {msg.deck} : decks[d] = prev.decks[d]
        /\ msg.deck \notin DOMAIN prev.decks => decks = prev.decks
        /\ msg.deck \in DOMAIN prev.decks =>
              LET old == prev.decks[msg.deck].cards
                  new == decks[msg.deck].cards
              IN  /\ Len(new) = Len(old)
                  /\ \A i \in 1..Len(old) :
                        /\ new[i].quantity = old[i].quantity
                        /\ new[i].card = old[i].card
                        /\ old[i].card.name # msg.name =>
                              new[i].current_quantity = old[i].current_quantity

\* C16 witness: a card was added in a deck that also holds a card of
\* another name, while another deck holds a card of the same name.
C16_Witness ==
    /\ msg.op = "AddCard"
    /\ msg.deck \in DOMAIN prev.decks
    /\ decks # prev.decks
    /\ \E i \in 1..Len(decks[msg.deck].cards) : decks[msg.deck].cards[i].card.name # msg.name
    /\ \E d \in DOMAIN decks \ {msg.deck} : HoldsName(decks[d].cards, msg.name)

(***************************************************************************)
(* The quantities when only enabled buttons are pressed (checked under     *)
(* SpecView).                                                              *)
(***************************************************************************)
\* C19: when AddCard and RemoveCard come from enabled buttons only, the
\* current_quantity of every CardInDeck lies between 0 and its quantity,
\* also in a deck with two entries of one name.
C19_GatedQuantityInRange ==
    \A d \in DOMAIN decks :
        \A i \in 1..Len(decks[d].cards) :
            decks[d].cards[i].current_quantity \in 0..decks[d].cards[i].quantity

(***************************************************************************)
(* The resolution in hand (checked under SpecAnalyze).                     *)
(***************************************************************************)
\* C20: a resolution in hand is never from an analysis that was already in
\* flight when CreateDeck was last handled, and the deck CreateDeck commits
\* is the result of the analysis requested last.
C20_ResolutionIsCurrent ==
    /\ deck_in_progress.some => ~dip_from.stale
    /\ (msg.op = "CreateDeck" /\ msg.outcome = "ok") => dip_from.newest

====
